---- MODULE Spec2Model ----
(***************************************************************************)
(* Poll scheduler and resource aggregation of kestral-tui.                 *)
(*                                                                         *)
(* One client connection owns one app.Model.  Bubble Tea runs every        *)
(* tea.Cmd in its own goroutine and hands the message it returns to        *)
(* Model.Update; messages of concurrent commands reach Update in any       *)
(* order.  Per poll category the model keeps the fetch commands that are   *)
(* running, the result messages that wait for Update, and the tea.Tick     *)
(* timers that are pending.                                                *)
(***************************************************************************)
EXTENDS Integers, Sequences, FiniteSets, Bags, TLC

\* The poll categories of Model.Update, resources first.
AllCategories ==
    <<"resources", "status", "convoys", "prs",
      "agents", "mail", "refinery", "witnesses">>

\* Number of categories of AllCategories that a run polls.
NumCategories == 2

Categories == {AllCategories[i] : i \in 1..NumCategories}

\* Number of presses of the refresh key in a run.
MaxRefresh == 1

\* Seconds between the handling of a result and the next tick: the defaults
\* of config.Default for status, agents and convoys, the 30 s sampling
\* cadence of the resources pane, and for the other categories the value
\* their config field holds.
PollInterval ==
    [status |-> 10, agents |-> 5, convoys |-> 15, resources |-> 30,
     prs |-> 60, mail |-> 30, refinery |-> 15, witnesses |-> 30]

\* How an external command ends: exit status 0, another exit status or a
\* failure to start, or the deadline of its context.
Endings == {"exit0", "exitErr", "deadline"}

\* Session lists a successful resources fetch may return; <<>> is the nil
\* slice of a listing without sessions.
SnapshotLists == {<<>>, <<"s1">>, <<"s1", "s2">>}

NoSessions == <<>>

\* Largest process id of a process table; ids 1..MaxPid name processes and
\* 0 is a parent outside the table.
MaxPid == 2

\* Largest number of pane lines the pane listing has for one session.
MaxAnchors == 2

Pids == 1..MaxPid

\* The sessions of the session listing.
SessionNames == {"s1", "s2"}

\* The session_created and session_activity columns of a session, in
\* seconds since the epoch, and the time.Now() of a fetch.
SessionMeta ==
    [s1 |-> [created |-> 100, activity |-> 1900],
     s2 |-> [created |-> 400, activity |-> 700]]

Now == 2000

\* The walk of a session before it starts.
NoWalk ==
    [pc |-> "idle", queue |-> <<>>, visited |-> {},
     acc |-> [cpu |-> 0, rss |-> 0, count |-> 0, pids |-> <<>>],
     enqueued |-> <<>>]

\* Number of samples a session history keeps.
maxSamples == 10

\* CPU thresholds of the status column, in tenths of a percent, and the
\* numbers of consecutive samples of the sustained rules.
cpuWarnThreshold == 800
cpuAlertThreshold == 950
cpuWarnSamples == 4
cpuAlertSamples == 10

\* Seconds without activity after which a session is stale.
staleThreshold == 900

\* CPUPercent values of a resource update, in tenths of a percent: below,
\* at and above each threshold.
Readings == {100, 800, 850, 950, 960}

\* ActivityTS values of a resource update: the zero of an activity column
\* that did not parse, 20 minutes before Now, one second more than 15
\* minutes before Now, 15 minutes before Now, and 100 seconds before Now.
ActivityTimes == {0, 800, 1099, 1100, 1900}

\* Largest number of lines of a ps output.
MaxLines == 2

\* Largest number of samples one session gets in a run.
MaxCalls == 12

\* Largest number of places in the run of samples of a session at which
\* the reading differs from the one before.
MaxChanges == 1

\* The pcpu column of a process, in tenths of a percent, and its rss column
\* in KB.  The values differ by process so that a total tells which records
\* were added.
ProcCPU(pid) == 450 * (2 ^ (pid - 1))
ProcRSS(pid) == 500 * (2 ^ (pid - 1))

VARIABLES
    fetching,       \* category -> number of fetch commands running
    results,        \* category -> bag of result messages waiting for Update
    ticks,          \* category -> intervals of the pending tea.Tick timers
    refreshes,      \* presses of the refresh key so far
    lastRefresh,    \* Model.lastRefresh is set (not the zero time)
    paneSessions,   \* ResourcesPane.sessions
    paneErr,        \* ResourcesPane.err
    sessions,       \* FetchResources: session name -> its created and
                    \* activity times, from the session listing
    psLines,        \* FetchResources: the lines of the ps output, each
                    \* split into its fields
    procs,          \* FetchResources: the records parsed from the ps output
    sessionPanes,   \* FetchResources: session name -> its pane pids
    snapshots,      \* FetchResources: the []SessionResource it returns
    fetchPc,        \* FetchResources: "fetched" when the three outputs are
                    \* at hand, "parsed" before step 4, "done" after
    walk,           \* FetchResources: the walk of one session, step by
                    \* step: its queue, visited set and totals
    history,        \* ResourcesPane.history: session name -> cpuSamples
    calls,          \* session name -> every value handed to addSample
    rendered,       \* status column of the rows rendered since the last
                    \* resource update
    conns,          \* SSH connection -> the tea.Program serving it: its
                    \* Model, running fetch commands, waiting messages
                    \* and timers
    paneHeap,       \* the ResourcesPane objects allocated so far
    spark,          \* a sessionHistory and the sparkline rendered from it
    rp,             \* a ResourcesPane over several sessions: its
                    \* sessions, error, histories, cursor and sort field
    detail,         \* the agent-detail polling of a Model
    rf              \* one call of FetchResources, command by command

aggVars ==
    <<sessions, psLines, procs, sessionPanes, snapshots, fetchPc, walk>>

histVars == <<history, calls, rendered>>

connVars == <<conns, paneHeap>>

\* The variables of the single connection, its fetch and its pane.
baseVars ==
    <<fetching, results, ticks, refreshes, lastRefresh, paneSessions,
      paneErr, aggVars, histVars>>

extVars == <<connVars, spark, rp, detail, rf>>

vars == <<fetching, results, ticks, refreshes, lastRefresh,
          paneSessions, paneErr, sessions, psLines, procs, sessionPanes,
          snapshots, fetchPc, walk, history, calls, rendered,
          conns, paneHeap, spark, rp, detail, rf>>

\* The SSH connections the server accepts, each once.
ConnIds == {"a", "b"}

\* Fetches a connection starts after the one of Model.Init, by a tick or
\* by the refresh key.
MaxConnFetches == 1

\* A connection the server has not accepted yet.
NoConn ==
    [up |-> FALSE, quit |-> FALSE, pane |-> 0, fetching |-> 0,
     results |-> EmptyBag, ticks |-> 0, started |-> 0]

\* The snapshots of a successful resources fetch on a connection.
ConnSnapshots == <<[name |-> "s1", cpu |-> 960, activity |-> 1900]>>

\* Places at which the samples a history retains change their value.
MaxSparkChanges == 1

\* CPU readings of the sparkline, in tenths of a percent: below zero, at
\* zero, on both sides of a level boundary, at 100% and above it.
SparkReadings == {-50, 0, 124, 125, 874, 875, 1000, 1500}

\* A pane without a history for the session, nothing rendered.
NoSpark == [present |-> FALSE, samples |-> <<>>, cells |-> <<>>]

\* Agents of the agents pane.
Agents == {"a1", "a2"}

\* Agent selections in a run.
MaxSelects == 3

\* No agent selected, no agent-detail fetch, message or tick.
NoDetail ==
    [agent |-> "none", fetching |-> EmptyBag, results |-> EmptyBag,
     ticks |-> 0, selects |-> 0]

\* Resource updates a pane handles in a run.
MaxUpdates == 3

\* The sort fields of the resources table, in the order of their cycle.
sortFields == <<"cpu", "mem", "name">>

\* NewResourcesPane: no session, no error, an empty history map, cursor
\* and offset on the first row, never sized, sorted by CPU.
NewResourcesPane ==
    [sessions |-> <<>>, err |-> "nil", history |-> <<>>, cursor |-> 0,
     offset |-> 0, height |-> 0, sortBy |-> 1, updates |-> 0]

\* FetchResources is not running.
NoFetch ==
    [pc |-> "idle", endings |-> <<>>, listed |-> {}, panes |-> <<>>,
     snapshots |-> <<>>, err |-> "nil"]

\* runCmd: the error it returns for each ending of the command.
runCmd(ending) ==
    IF ending = "exit0" THEN "nil"
    ELSE IF ending = "deadline" THEN "timed out"
    ELSE "error"

\* The Err field of the message a fetch command builds from the error of
\* its Fetcher call.  fetchStatusCmd discards the errors of FetchStatus and
\* FetchSessions; fetchConvoysCmd answers an error with an empty message.
MsgErr(c, err) ==
    IF c \in {"status", "convoys"} THEN "nil" ELSE err

\* The message a fetch command of category c returns when its external
\* command ends with `ending`; `list` is the data of a success.
FetchMsg(c, ending, list) ==
    [ending   |-> ending,
     err      |-> MsgErr(c, runCmd(ending)),
     sessions |-> IF c = "resources" /\ ending = "exit0"
                  THEN list ELSE NoSessions]

Failed(m) == m.ending # "exit0"

\* Model.Init: one fetch of every category is started.
ModelInit ==
    /\ fetching = [c \in Categories |-> 1]
    /\ results = [c \in Categories |-> EmptyBag]
    /\ ticks = [c \in Categories |-> <<>>]
    /\ refreshes = 0
    /\ lastRefresh = FALSE
    /\ paneSessions = NoSessions
    /\ paneErr = "nil"
    /\ conns = [k \in ConnIds |-> NoConn]
    /\ paneHeap = <<>>
    /\ spark = NoSpark
    /\ rp = NewResourcesPane
    /\ detail = NoDetail
    /\ rf = NoFetch

Init ==
    /\ ModelInit
    /\ procs = <<>>
    /\ sessions = <<>>
    /\ psLines = <<>>
    /\ sessionPanes = [s \in SessionNames |-> <<>>]
    /\ walk = NoWalk
    /\ history = <<>>
    /\ calls = <<>>
    /\ rendered = <<>>
    /\ snapshots = <<>>
    /\ fetchPc = "idle"

\* The external command of a running fetch of c ends by itself and the
\* fetch command returns its message.
CmdReturns(c) ==
    /\ fetching[c] > 0
    /\ \E ending \in Endings \ {"deadline"} :
       \E list \in (IF c = "resources" /\ ending = "exit0"
                    THEN SnapshotLists ELSE {NoSessions}) :
          results' = [results EXCEPT
                         ![c] = @ (+) SetToBag({FetchMsg(c, ending, list)})]
    /\ fetching' = [fetching EXCEPT ![c] = @ - 1]
    /\ UNCHANGED <<ticks, refreshes, lastRefresh, paneSessions, paneErr,
                   aggVars, histVars, extVars>>

\* A runCmd whose context has no deadline: the command is never killed.
CmdNeverKilled(c) ==
    /\ FALSE
    /\ UNCHANGED vars

\* The deadline of runCmd's context expires: the command is killed and the
\* fetch command returns its message.
CmdTimeout(c) ==
    /\ fetching[c] > 0
    /\ results' = [results EXCEPT
                      ![c] = @ (+) SetToBag({FetchMsg(c, "deadline", NoSessions)})]
    /\ fetching' = [fetching EXCEPT ![c] = @ - 1]
    /\ UNCHANGED <<ticks, refreshes, lastRefresh, paneSessions, paneErr,
                   aggVars, histVars, extVars>>

\* An Update that starts a fetch only while no other category is fetching.
HandleTickSerialized(c) ==
    /\ \A d \in Categories \ {c} : fetching[d] = 0
    /\ \E i \in 1..Len(ticks[c]) :
          ticks' = [ticks EXCEPT
                       ![c] = SubSeq(@, 1, i - 1) \o SubSeq(@, i + 1, Len(@))]
    /\ fetching' = [fetching EXCEPT ![c] = @ + 1]
    /\ UNCHANGED <<results, refreshes, lastRefresh, paneSessions, paneErr,
                   aggVars, histVars, extVars>>

\* Model.Update on a tick message: a pending timer of c fires and the
\* fetch command of c is started.
HandleTick(c) ==
    /\ \E i \in 1..Len(ticks[c]) :
          ticks' = [ticks EXCEPT
                       ![c] = SubSeq(@, 1, i - 1) \o SubSeq(@, i + 1, Len(@))]
    /\ fetching' = [fetching EXCEPT ![c] = @ + 1]
    /\ UNCHANGED <<results, refreshes, lastRefresh, paneSessions, paneErr,
                   aggVars, histVars, extVars>>

\* An Update that retries a failed fetch at once.
ScheduleIntervalRetry(c, m) == IF Failed(m) THEN 0 ELSE PollInterval[c]

\* The interval of the tick that Model.Update schedules after a result.
ScheduleInterval(c, m) == PollInterval[c]

\* ResourcesPane.Update on a ResourceUpdateMsg whose sessions are given by
\* name; ResourcesUpdate is the same handler on sessions with their CPU
\* readings, where it also extends the CPU histories.
PaneUpdate(m) ==
    /\ paneSessions' = m.sessions
    /\ paneErr' = m.err

\* An Update that schedules the next tick only after a success.
HandleResultStopOnError(c, m) ==
    /\ BagIn(m, results[c])
    /\ results' = [results EXCEPT ![c] = @ (-) SetToBag({m})]
    /\ IF c = "resources"
       THEN PaneUpdate(m)
       ELSE UNCHANGED <<paneSessions, paneErr>>
    /\ lastRefresh' = IF c = "status" THEN TRUE ELSE lastRefresh
    /\ ticks' = IF Failed(m) THEN ticks
              ELSE [ticks EXCEPT ![c] = Append(@, ScheduleInterval(c, m))]
    /\ UNCHANGED <<fetching, refreshes, aggVars, histVars, extVars>>

\* Model.Update on a result message of c: forward it to all panes and
\* schedule the next tick.
HandleResult(c, m) ==
    /\ BagIn(m, results[c])
    /\ results' = [results EXCEPT ![c] = @ (-) SetToBag({m})]
    /\ IF c = "resources"
       THEN PaneUpdate(m)
       ELSE UNCHANGED <<paneSessions, paneErr>>
    /\ lastRefresh' = IF c = "status" THEN TRUE ELSE lastRefresh
    /\ ticks' = [ticks EXCEPT ![c] = Append(@, ScheduleInterval(c, m))]
    /\ UNCHANGED <<fetching, refreshes, aggVars, histVars, extVars>>

\* Model.handleKey on the refresh key: a fetch of every category is
\* started.
Refresh ==
    /\ refreshes < MaxRefresh
    /\ refreshes' = refreshes + 1
    /\ fetching' = [c \in Categories |-> fetching[c] + 1]
    /\ UNCHANGED <<results, ticks, lastRefresh, paneSessions, paneErr,
                   aggVars, histVars, extVars>>

Messages(c) == BagToSet(results[c])

Next ==
    \/ \E c \in Categories : CmdReturns(c)
    \/ \E c \in Categories : CmdTimeout(c)
    \/ \E c \in Categories : HandleTick(c)
    \/ \E c \in Categories : \E m \in Messages(c) : HandleResult(c, m)
    \/ Refresh

Spec == Init /\ [][Next]_vars

\* A connection on which no key is pressed.
PollNext ==
    \/ \E c \in Categories : CmdReturns(c)
    \/ \E c \in Categories : CmdTimeout(c)
    \/ \E c \in Categories : HandleTick(c)
    \/ \E c \in Categories : \E m \in Messages(c) : HandleResult(c, m)

\* The Bubble Tea runtime delivers every fired timer and every returned
\* message to Update, and the deadline of a running command expires; a
\* command need not end by itself.
Fairness ==
    \A c \in Categories :
        /\ WF_vars(CmdTimeout(c))
        /\ WF_vars(HandleTick(c))
        /\ WF_vars(\E m \in Messages(c) : HandleResult(c, m))

LiveSpec == Init /\ [][PollNext]_vars /\ Fairness

-----------------------------------------------------------------------------
\* Fetcher.FetchResources, step 4: the walk of the process tree.

Range(f) == {f[i] : i \in DOMAIN f}

\* pidIdx: the pid has a record in the table.
HasRecord(table, pid) == \E i \in 1..Len(table) : table[i].pid = pid

\* procs[pidIdx[pid]]: the record of the pid (the last one in the table).
RecordOf(table, pid) ==
    LET idxs == {i \in 1..Len(table) : table[i].pid = pid}
    IN  table[CHOOSE i \in idxs : \A j \in idxs : j <= i]

\* Every pid of the table, whatever its parent.
AllPidsAsChildren(table, pid) == [i \in 1..Len(table) |-> table[i].pid]

\* children[pid]: the pids whose ppid is pid, in table order.
RECURSIVE ChildrenOf(_, _)
ChildrenOf(table, pid) ==
    IF table = <<>> THEN <<>>
    ELSE IF Head(table).ppid = pid
         THEN <<Head(table).pid>> \o ChildrenOf(Tail(table), pid)
         ELSE ChildrenOf(Tail(table), pid)

\* The inner loop of the walk: every child not yet visited is marked
\* visited and appended to the queue.
RECURSIVE EnqueueChildren(_, _, _)
EnqueueChildren(kids, queue, visited) ==
    IF kids = <<>> THEN [queue |-> queue, visited |-> visited]
    ELSE IF Head(kids) \in visited
         THEN EnqueueChildren(Tail(kids), queue, visited)
         ELSE EnqueueChildren(Tail(kids), Append(queue, Head(kids)),
                              visited \cup {Head(kids)})

\* The outer loop of the walk: pop a pid, add its record to the totals when
\* it has one, enqueue its children.  The field pids lists the pids whose
\* record was added, in the order of the additions.
RECURSIVE Walk(_, _, _, _)
Walk(table, queue, visited, acc) ==
    IF queue = <<>> THEN acc
    ELSE LET pid  == Head(queue)
             acc1 == IF HasRecord(table, pid)
                     THEN [cpu   |-> acc.cpu + RecordOf(table, pid).cpu,
                           rss   |-> acc.rss + RecordOf(table, pid).rss,
                           count |-> acc.count + 1,
                           pids  |-> Append(acc.pids, pid)]
                     ELSE acc
             next == EnqueueChildren(ChildrenOf(table, pid),
                                     Tail(queue), visited)
         IN  Walk(table, next.queue, next.visited, acc1)

\* The SessionResource of one session: zero usage without pane pids, else
\* the totals of the walk that starts with every pane pid queued and
\* visited; MemRSS is in bytes.  Both carry the uptime and the activity
\* time of the session.
SessionSnapshot(table, name, sm, panePIDs) ==
    IF panePIDs = <<>>
    THEN [name |-> name, cpu |-> 0, mem |-> 0, count |-> 0, pids |-> <<>>,
          uptime |-> Now - sm.created, activity |-> sm.activity]
    ELSE LET acc == Walk(table, panePIDs, Range(panePIDs),
                         [cpu |-> 0, rss |-> 0, count |-> 0, pids |-> <<>>])
         IN  [name |-> name, cpu |-> acc.cpu, mem |-> acc.rss * 1024,
              count |-> acc.count, pids |-> acc.pids,
              uptime |-> Now - sm.created, activity |-> sm.activity]

\* The sequences over S of length at most n.
SeqsUpTo(S, n) == UNION {[1..k -> S] : k \in 0..n}

\* A process table as ps prints it: ascending pids, one line per process.
RECURSIVE TableOf(_, _)
TableOf(parent, pid) ==
    IF pid > MaxPid THEN <<>>
    ELSE IF parent[pid] = -1 THEN TableOf(parent, pid + 1)
         ELSE <<[pid |-> pid, ppid |-> parent[pid],
                 cpu |-> ProcCPU(pid), rss |-> ProcRSS(pid)]>>
              \o TableOf(parent, pid + 1)

\* The state of FetchResources after its three commands succeeded and
\* their output is parsed: any sessions of the listing, any table over Pids
\* (a process may be missing, be its own parent, or sit on a cycle of
\* parents) and any pane pids, also of a session the listing lacks.
AggInit ==
    /\ ModelInit
    /\ \E listed \in SUBSET SessionNames :
          sessions = [s \in listed |-> SessionMeta[s]]
    /\ psLines = <<>>
    /\ \E parent \in [Pids -> {-1} \cup (0..MaxPid)] :
          procs = TableOf(parent, 1)
    /\ sessionPanes \in [SessionNames -> SeqsUpTo(Pids, MaxAnchors)]
    /\ snapshots = <<>>
    /\ fetchPc = "parsed"
    /\ walk = NoWalk
    /\ history = <<>>
    /\ calls = <<>>
    /\ rendered = <<>>

\* Step 4 without the branch for a session that has no pane pid: such a
\* session gets no snapshot.
FetchResourcesOmitPaneless ==
    /\ fetchPc = "parsed"
    /\ LET withPanes == {s \in DOMAIN sessions : sessionPanes[s] # <<>>}
       IN  \E order \in [1..Cardinality(withPanes) -> withPanes] :
              /\ Range(order) = withPanes
              /\ snapshots' = [i \in DOMAIN order |->
                                  SessionSnapshot(procs, order[i],
                                                  sessions[order[i]],
                                                  sessionPanes[order[i]])]
    /\ fetchPc' = "done"
    /\ UNCHANGED <<fetching, results, ticks, refreshes, lastRefresh,
                   paneSessions, paneErr, sessions, psLines, procs,
                   sessionPanes, walk, histVars, extVars>>

\* Step 4 of FetchResources: one snapshot per session of the listing, in
\* the order of the iteration over the sessions map; a listing without
\* sessions returns the nil slice.
FetchResources ==
    /\ fetchPc = "parsed"
    /\ \E order \in [1..Cardinality(DOMAIN sessions) -> DOMAIN sessions] :
          /\ Range(order) = DOMAIN sessions
          /\ snapshots' = [i \in DOMAIN order |->
                              SessionSnapshot(procs, order[i],
                                              sessions[order[i]],
                                              sessionPanes[order[i]])]
    /\ fetchPc' = "done"
    /\ UNCHANGED <<fetching, results, ticks, refreshes, lastRefresh,
                   paneSessions, paneErr, sessions, psLines, procs,
                   sessionPanes, walk, histVars, extVars>>

AggNext == FetchResources

AggSpec == AggInit /\ [][AggNext]_vars

-----------------------------------------------------------------------------
\* Fetcher.FetchResources, step 3: the parse of the ps output.  A line is
\* the sequence of its fields, as strings.Fields returns them; a field is
\* a sequence of characters.

DigitChars == <<"0", "1", "2", "3", "4", "5", "6", "7", "8", "9">>

IsDigit(ch) == \E d \in DOMAIN DigitChars : DigitChars[d] = ch

DigitVal(ch) == (CHOOSE d \in DOMAIN DigitChars : DigitChars[d] = ch) - 1

\* The decimal digits of a natural number, as ps prints it.
RECURSIVE Digits(_)
Digits(n) ==
    IF n < 10 THEN <<DigitChars[n + 1]>>
    ELSE Append(Digits(n \div 10), DigitChars[(n % 10) + 1])

\* The value of a sequence of digits.
RECURSIVE DigitsValue(_, _)
DigitsValue(tok, acc) ==
    IF tok = <<>> THEN acc
    ELSE DigitsValue(Tail(tok), acc * 10 + DigitVal(Head(tok)))

AllDigits(tok) == \A i \in DOMAIN tok : IsDigit(tok[i])

\* strconv.Atoi of an unsigned field: an error unless the field is a
\* non-empty run of digits.
Atoi(tok) ==
    IF tok # <<>> /\ AllDigits(tok)
    THEN [ok |-> TRUE, val |-> DigitsValue(tok, 0)]
    ELSE [ok |-> FALSE, val |-> 0]

\* strconv.ParseInt(field, 10, 64) of an unsigned field.
ParseInt(tok) ==
    IF tok # <<>> /\ AllDigits(tok)
    THEN [ok |-> TRUE, val |-> DigitsValue(tok, 0)]
    ELSE [ok |-> FALSE, val |-> 0]

\* strconv.ParseFloat of an unsigned decimal field, the value in tenths
\* (decimals after the first are cut): digits with at most one point and
\* at least one digit; on an error the value is 0.
ParseFloat(tok) ==
    LET dots == {i \in DOMAIN tok : tok[i] = "."}
    IN  IF dots = {} THEN
            IF tok # <<>> /\ AllDigits(tok)
            THEN [ok |-> TRUE, val |-> DigitsValue(tok, 0) * 10]
            ELSE [ok |-> FALSE, val |-> 0]
        ELSE IF Cardinality(dots) = 1 THEN
            LET d     == CHOOSE i \in dots : TRUE
                whole == SubSeq(tok, 1, d - 1)
                frac  == SubSeq(tok, d + 1, Len(tok))
            IN  IF AllDigits(whole) /\ AllDigits(frac) /\ Len(tok) > 1
                THEN [ok  |-> TRUE,
                      val |-> DigitsValue(whole, 0) * 10
                              + (IF frac = <<>> THEN 0
                                 ELSE DigitVal(Head(frac)))]
                ELSE [ok |-> FALSE, val |-> 0]
        ELSE [ok |-> FALSE, val |-> 0]

\* The scanner loop: a line with fewer than 4 fields, or whose pid or ppid
\* is refused by Atoi, is skipped; the errors of ParseFloat and ParseInt
\* are not looked at.
RECURSIVE ParsePs(_)
ParsePs(lines) ==
    IF lines = <<>> THEN <<>>
    ELSE LET fields == Head(lines)
             rest   == ParsePs(Tail(lines))
         IN  IF Len(fields) < 4 THEN rest
             ELSE IF ~Atoi(fields[1]).ok THEN rest
             ELSE IF ~Atoi(fields[2]).ok THEN rest
             ELSE <<[pid  |-> Atoi(fields[1]).val,
                     ppid |-> Atoi(fields[2]).val,
                     cpu  |-> ParseFloat(fields[3]).val,
                     rss  |-> ParseInt(fields[4]).val]>> \o rest

\* A field that is no number.
BadField == <<"4", "x">>

\* The shapes of a line of the ps output: as ps prints it, with a field
\* missing, with a field too many, or with one field that is no number.
Defects == {"none", "short", "long", "pid", "ppid", "cpu", "rss"}

\* The line of process pid with parent ppid, with the defect.
PsLine(pid, ppid, defect) ==
    LET cpuField == Digits(ProcCPU(pid) \div 10) \o <<".">>
                    \o Digits(ProcCPU(pid) % 10)
        good == <<Digits(pid), Digits(ppid), cpuField, Digits(ProcRSS(pid))>>
    IN  CASE defect = "none"  -> good
          [] defect = "short" -> SubSeq(good, 1, 3)
          [] defect = "long"  -> Append(good, Digits(0))
          [] defect = "pid"   -> [good EXCEPT ![1] = BadField]
          [] defect = "ppid"  -> [good EXCEPT ![2] = BadField]
          [] defect = "cpu"   -> [good EXCEPT ![3] = BadField]
          [] defect = "rss"   -> [good EXCEPT ![4] = BadField]

PsLineSet ==
    {PsLine(pid, ppid, defect) :
        pid \in Pids, ppid \in 0..MaxPid, defect \in Defects}

\* The state of FetchResources when its three commands have succeeded:
\* the session s1 with the pane pid 1, and any ps output of up to MaxLines
\* lines.
ParseInit ==
    /\ ModelInit
    /\ sessions = [s \in {"s1"} |-> SessionMeta[s]]
    /\ sessionPanes = [s \in SessionNames |->
                          IF s = "s1" THEN <<1>> ELSE <<>>]
    /\ psLines \in SeqsUpTo(PsLineSet, MaxLines)
    /\ procs = <<>>
    /\ snapshots = <<>>
    /\ fetchPc = "fetched"
    /\ walk = NoWalk
    /\ history = <<>>
    /\ calls = <<>>
    /\ rendered = <<>>

\* Step 3 of FetchResources, after the ps command: the scanner loop.
ParseProcs ==
    /\ fetchPc = "fetched"
    /\ procs' = ParsePs(psLines)
    /\ fetchPc' = "parsed"
    /\ UNCHANGED <<fetching, results, ticks, refreshes, lastRefresh,
                   paneSessions, paneErr, sessions, psLines, sessionPanes,
                   snapshots, walk, histVars, extVars>>

ParseNext == ParseProcs \/ FetchResources

ParseSpec == ParseInit /\ [][ParseNext]_vars

\* A line with exactly four fields, each a number.
WellFormed(fields) ==
    /\ Len(fields) = 4
    /\ Atoi(fields[1]).ok
    /\ Atoi(fields[2]).ok
    /\ ParseFloat(fields[3]).ok
    /\ ParseInt(fields[4]).ok

\* The lines that are well formed, in their order.
RECURSIVE WellFormedLines(_)
WellFormedLines(lines) ==
    IF lines = <<>> THEN <<>>
    ELSE IF WellFormed(Head(lines))
         THEN <<Head(lines)>> \o WellFormedLines(Tail(lines))
         ELSE WellFormedLines(Tail(lines))

-----------------------------------------------------------------------------
\* Fetcher.FetchResources, step 4, for the session s1 with pane pids, one
\* iteration of the loop over the queue at a time.

\* The state after the three outputs are parsed: any table over Pids and
\* one to MaxAnchors pane pids of s1.
WalkInit ==
    /\ ModelInit
    /\ sessions = [s \in {"s1"} |-> SessionMeta[s]]
    /\ psLines = <<>>
    /\ \E parent \in [Pids -> {-1} \cup (0..MaxPid)] :
          procs = TableOf(parent, 1)
    /\ \E anchors \in SeqsUpTo(Pids, MaxAnchors) \ {<<>>} :
          sessionPanes = [s \in SessionNames |->
                             IF s = "s1" THEN anchors ELSE <<>>]
    /\ snapshots = <<>>
    /\ fetchPc = "parsed"
    /\ walk = NoWalk
    /\ history = <<>>
    /\ calls = <<>>
    /\ rendered = <<>>

\* The number of times pid occurs in the queue.
Occurrences(queue, pid) == Cardinality({i \in DOMAIN queue : queue[i] = pid})

\* Every pane pid is appended to the queue and marked visited.
WalkStart ==
    /\ fetchPc = "parsed"
    /\ walk.pc = "idle"
    /\ walk' = [NoWalk EXCEPT
                   !.pc = "walking",
                   !.queue = sessionPanes["s1"],
                   !.visited = Range(sessionPanes["s1"]),
                   !.enqueued = [p \in Pids |->
                                    Occurrences(sessionPanes["s1"], p)]]
    /\ UNCHANGED <<fetching, results, ticks, refreshes, lastRefresh,
                   paneSessions, paneErr, sessions, psLines, procs,
                   sessionPanes, snapshots, fetchPc, histVars, extVars>>

\* One iteration: the head of the queue is popped, its record is added to
\* the totals when it has one, its children not yet visited are appended.
WalkStep ==
    /\ walk.pc = "walking"
    /\ walk.queue # <<>>
    /\ LET pid  == Head(walk.queue)
           acc1 == IF HasRecord(procs, pid)
                   THEN [cpu   |-> walk.acc.cpu + RecordOf(procs, pid).cpu,
                         rss   |-> walk.acc.rss + RecordOf(procs, pid).rss,
                         count |-> walk.acc.count + 1,
                         pids  |-> Append(walk.acc.pids, pid)]
                   ELSE walk.acc
           next == EnqueueChildren(ChildrenOf(procs, pid),
                                   Tail(walk.queue), walk.visited)
       IN  walk' = [walk EXCEPT
                      !.queue = next.queue,
                      !.visited = next.visited,
                      !.acc = acc1,
                      !.enqueued = [p \in Pids |->
                          walk.enqueued[p]
                          + Occurrences(next.queue, p)
                          - Occurrences(Tail(walk.queue), p)]]
    /\ UNCHANGED <<fetching, results, ticks, refreshes, lastRefresh,
                   paneSessions, paneErr, sessions, psLines, procs,
                   sessionPanes, snapshots, fetchPc, histVars, extVars>>

\* The queue is empty: the SessionResource of the session is appended to
\* the results, and FetchResources returns them.
WalkEnd ==
    /\ walk.pc = "walking"
    /\ walk.queue = <<>>
    /\ walk' = [walk EXCEPT !.pc = "done"]
    /\ snapshots' =
          <<[name |-> "s1", cpu |-> walk.acc.cpu,
             mem |-> walk.acc.rss * 1024, count |-> walk.acc.count,
             pids |-> walk.acc.pids,
             uptime |-> Now - sessions["s1"].created,
             activity |-> sessions["s1"].activity]>>
    /\ fetchPc' = "done"
    /\ UNCHANGED <<fetching, results, ticks, refreshes, lastRefresh,
                   paneSessions, paneErr, sessions, psLines, procs,
                   sessionPanes, histVars, extVars>>

WalkNext == WalkStart \/ WalkStep \/ WalkEnd

\* The goroutine of the fetch command keeps running.
WalkFairness == WF_vars(WalkNext)

WalkSpec == WalkInit /\ [][WalkNext]_vars /\ WalkFairness

\* The pids reachable from the anchors over parent-to-child links.
RECURSIVE Reachable(_, _)
Reachable(table, S) ==
    LET S1 == S \cup {r.pid : r \in {x \in Range(table) : x.ppid \in S}}
    IN  IF S1 = S THEN S ELSE Reachable(table, S1)

\* The processes of the table that are anchors or descend from one.
SessionProcs(table, panePIDs) ==
    {r \in Range(table) : r.pid \in Reachable(table, Range(panePIDs))}

RECURSIVE SumOver(_, _)
SumOver(S, field) ==
    IF S = {} THEN 0
    ELSE LET r == CHOOSE x \in S : TRUE
         IN  r[field] + SumOver(S \ {r}, field)

-----------------------------------------------------------------------------
\* ResourcesPane: the CPU history of a session and its status.

\* addSample that drops the new sample once the history is full.
addSampleKeepOldest(samples, cpu) ==
    IF Len(samples) >= maxSamples THEN samples ELSE Append(samples, cpu)

\* sessionHistory.addSample: append, then keep the last maxSamples.
addSample(samples, cpu) ==
    LET appended == Append(samples, cpu)
    IN  IF Len(appended) > maxSamples
        THEN SubSeq(appended, Len(appended) - maxSamples + 1, Len(appended))
        ELSE appended

\* sustainedAbove that looks at the samples there are, however few.
sustainedAboveNoLength(samples, threshold, n) ==
    /\ samples # <<>>
    /\ \A i \in 1..Len(samples) :
          i > Len(samples) - n => ~(samples[i] < threshold)

\* sessionHistory.sustainedAbove: at least n samples, and none of the last
\* n is below the threshold.
sustainedAbove(samples, threshold, n) ==
    IF Len(samples) < n THEN FALSE
    ELSE \A i \in (Len(samples) - n + 1)..Len(samples) :
             ~(samples[i] < threshold)

\* sessionStatus that looks at the CPU history before the activity time.
sessionStatusCpuFirst(hist, name, cpu, activityTS) ==
    IF /\ name \in DOMAIN hist
       /\ sustainedAbove(hist[name], cpuAlertThreshold, cpuAlertSamples)
    THEN "alert"
    ELSE IF /\ name \in DOMAIN hist
            /\ sustainedAbove(hist[name], cpuWarnThreshold, cpuWarnSamples)
    THEN "warning"
    ELSE IF activityTS > 0 /\ Now - activityTS > staleThreshold
    THEN "stale"
    ELSE IF cpu > cpuAlertThreshold THEN "warning"
    ELSE "healthy"

\* sessionStatus that tests the warning rule before the alert rule.
sessionStatusWarnFirst(hist, name, cpu, activityTS) ==
    IF activityTS > 0 /\ Now - activityTS > staleThreshold
    THEN "stale"
    ELSE IF /\ name \in DOMAIN hist
            /\ sustainedAbove(hist[name], cpuWarnThreshold, cpuWarnSamples)
    THEN "warning"
    ELSE IF /\ name \in DOMAIN hist
            /\ sustainedAbove(hist[name], cpuAlertThreshold, cpuAlertSamples)
    THEN "alert"
    ELSE IF cpu > cpuAlertThreshold THEN "warning"
    ELSE "healthy"

\* ResourcesPane.sessionStatus at time Now; hist is the history map, which
\* has no entry for a session that never was in a resource update.
sessionStatus(hist, name, cpu, activityTS) ==
    IF activityTS > 0 /\ Now - activityTS > staleThreshold
    THEN "stale"
    ELSE IF /\ name \in DOMAIN hist
            /\ sustainedAbove(hist[name], cpuAlertThreshold, cpuAlertSamples)
    THEN "alert"
    ELSE IF /\ name \in DOMAIN hist
            /\ sustainedAbove(hist[name], cpuWarnThreshold, cpuWarnSamples)
    THEN "warning"
    ELSE IF cpu > cpuAlertThreshold THEN "warning"
    ELSE "healthy"

\* An update that keeps the histories of the listed sessions only.
RecordSamplesOfListed(hist, list) ==
    [n \in {list[i].name : i \in DOMAIN list} |->
        addSample(IF n \in DOMAIN hist THEN hist[n] ELSE <<>>,
                  list[CHOOSE i \in DOMAIN list : list[i].name = n].cpu)]

\* The loop of Update over the sessions of a message: the history of a
\* session is created when it is missing, and gets the CPUPercent.
RECURSIVE RecordSamples(_, _)
RecordSamples(hist, list) ==
    IF list = <<>> THEN hist
    ELSE LET s    == Head(list)
             old  == IF s.name \in DOMAIN hist THEN hist[s.name] ELSE <<>>
             hist1 == [n \in DOMAIN hist \cup {s.name} |->
                          IF n = s.name THEN addSample(old, s.cpu)
                          ELSE hist[n]]
         IN  RecordSamples(hist1, Tail(list))

\* The values handed to addSample by the loop of Update, per session.
RECURSIVE LogCalls(_, _)
LogCalls(log, list) ==
    IF list = <<>> THEN log
    ELSE LET s    == Head(list)
             old  == IF s.name \in DOMAIN log THEN log[s.name] ELSE <<>>
             log1 == [n \in DOMAIN log \cup {s.name} |->
                         IF n = s.name THEN Append(old, s.cpu) ELSE log[n]]
         IN  LogCalls(log1, Tail(list))

\* The places at which a run of samples changes its value.
Changes(run) == Cardinality({i \in 1..(Len(run) - 1) : run[i] # run[i + 1]})

\* The ResourceUpdateMsg values of a run: a failed fetch, a fetch without
\* sessions, and a fetch that lists the session s1.
ResourceMsgs ==
    {[sessions |-> <<>>, err |-> "error"], [sessions |-> <<>>, err |-> "nil"]}
    \cup {[sessions |-> <<[name |-> "s1", cpu |-> c, activity |-> t]>>,
            err |-> "nil"] : c \in Readings, t \in ActivityTimes}

\* ResourcesPane.Update for a ResourceUpdateMsg.
ResourcesUpdate(m) ==
    /\ \A n \in DOMAIN LogCalls(calls, m.sessions) :
          /\ Len(LogCalls(calls, m.sessions)[n]) <= MaxCalls
          /\ Changes(LogCalls(calls, m.sessions)[n]) <= MaxChanges
    /\ paneSessions' = m.sessions
    /\ paneErr' = m.err
    /\ history' = RecordSamples(history, m.sessions)
    /\ calls' = LogCalls(calls, m.sessions)
    /\ rendered' = <<>>
    /\ UNCHANGED <<fetching, results, ticks, refreshes, lastRefresh,
                   aggVars, extVars>>

\* ResourcesPane.renderRows: the status of every session of the pane.
renderRows ==
    /\ rendered' = [i \in DOMAIN paneSessions |->
                       sessionStatus(history, paneSessions[i].name,
                                     paneSessions[i].cpu,
                                     paneSessions[i].activity)]
    /\ UNCHANGED <<fetching, results, ticks, refreshes, lastRefresh,
                   paneSessions, paneErr, aggVars, history, calls,
                   extVars>>

\* NewResourcesPane: no session, no error, an empty history map.
HistInit ==
    /\ ModelInit
    /\ sessions = <<>>
    /\ psLines = <<>>
    /\ procs = <<>>
    /\ sessionPanes = [s \in SessionNames |-> <<>>]
    /\ snapshots = <<>>
    /\ fetchPc = "idle"
    /\ walk = NoWalk
    /\ history = <<>>
    /\ calls = <<>>
    /\ rendered = <<>>

HistNext ==
    \/ \E m \in ResourceMsgs : ResourcesUpdate(m)
    \/ renderRows

HistSpec == HistInit /\ [][HistNext]_vars

\* The session is stale at Now.
IsStale(activityTS) == activityTS > 0 /\ Now - activityTS > staleThreshold

\* There are at least n samples and each of the last n is greater than
\* the threshold.
LastAllAbove(samples, threshold, n) ==
    /\ Len(samples) >= n
    /\ \A i \in (Len(samples) - n + 1)..Len(samples) : samples[i] > threshold

\* The samples of a session, none for a session without history.
SamplesOf(name) == IF name \in DOMAIN history THEN history[name] ELSE <<>>

-----------------------------------------------------------------------------
\* Steps of Model.Update, recognised by their effect on one category.

\* ---------------------------------------------------------------------
\* Several SSH connections.  The server builds one Model per session with
\* app.New, which allocates a Fetcher and nine panes of its own; the
\* resources category stands for the categories of a connection.

\* A shared pane: every Model would hold the first pane allocated.
PaneOfFirst(k) == 1

\* Model.panes: the ResourcesPane of connection k.
PaneOf(k) == conns[k].pane

\* NewResourcesPane, as an object of the heap.
NewPane == [sessions |-> NoSessions, err |-> "nil", history |-> <<>>]

\* The server's teaHandler: app.New builds the Model of the session and
\* the program runs Model.Init, which starts the first fetch.
Connect(k) ==
    /\ ~conns[k].up
    /\ paneHeap' = Append(paneHeap, NewPane)
    /\ conns' = [conns EXCEPT ![k] =
                    [@ EXCEPT !.up = TRUE, !.pane = Len(paneHeap) + 1,
                              !.fetching = 1]]
    /\ UNCHANGED <<baseVars, spark, rp, detail, rf>>

\* The external command of a fetch of connection k ends.  runCmd builds
\* its context from context.Background(), so the command runs to its end
\* or to its own deadline whether the program still runs or not; the
\* message of a fetch that outlives its program is never delivered.
ConnCmdEnds(k, ending) ==
    /\ conns[k].fetching > 0
    /\ conns' = [conns EXCEPT ![k] =
          [@ EXCEPT !.fetching = @ - 1,
                    !.results =
                        IF conns[k].quit THEN EmptyBag
                        ELSE @ (+) SetToBag({FetchMsg("resources", ending,
                                                      ConnSnapshots)})]]
    /\ UNCHANGED <<baseVars, paneHeap, spark, rp, detail, rf>>

\* Model.Update of connection k on its tick: start a fetch.
ConnTick(k) ==
    /\ conns[k].up /\ ~conns[k].quit
    /\ conns[k].ticks > 0
    /\ conns[k].started < MaxConnFetches
    /\ conns' = [conns EXCEPT ![k] =
                    [@ EXCEPT !.ticks = @ - 1, !.fetching = @ + 1,
                              !.started = @ + 1]]
    /\ UNCHANGED <<baseVars, paneHeap, spark, rp, detail, rf>>

\* Model.Update of connection k on a resources result: its own pane
\* takes the sessions and the error and extends its histories, and the
\* next tick is scheduled.
ConnResult(k, m) ==
    /\ conns[k].up /\ ~conns[k].quit
    /\ BagIn(m, conns[k].results)
    /\ conns' = [conns EXCEPT ![k] =
                    [@ EXCEPT !.results = @ (-) SetToBag({m}),
                              !.ticks = @ + 1]]
    /\ paneHeap' = [paneHeap EXCEPT ![PaneOf(k)] =
                       [sessions |-> m.sessions,
                        err      |-> m.err,
                        history  |-> RecordSamples(@.history, m.sessions)]]
    /\ UNCHANGED <<baseVars, spark, rp, detail, rf>>

\* Model.handleKey of connection k on the refresh key.
ConnRefresh(k) ==
    /\ conns[k].up /\ ~conns[k].quit
    /\ conns[k].started < MaxConnFetches
    /\ conns' = [conns EXCEPT ![k] =
                    [@ EXCEPT !.fetching = @ + 1, !.started = @ + 1]]
    /\ UNCHANGED <<baseVars, paneHeap, spark, rp, detail, rf>>

\* Model.handleKey of connection k on the quit key: tea.Quit ends the
\* program, its waiting messages and timers are never handled.  Nothing
\* here reaches the commands that are running.
ConnQuit(k) ==
    /\ conns[k].up /\ ~conns[k].quit
    /\ conns' = [conns EXCEPT ![k] =
                    [@ EXCEPT !.quit = TRUE, !.results = EmptyBag,
                              !.ticks = 0]]
    /\ UNCHANGED <<baseVars, paneHeap, spark, rp, detail, rf>>

ConnNext ==
    \/ \E k \in ConnIds : Connect(k)
    \/ \E k \in ConnIds : \E e \in Endings : ConnCmdEnds(k, e)
    \/ \E k \in ConnIds : ConnTick(k)
    \/ \E k \in ConnIds : \E m \in BagToSet(conns[k].results) :
            ConnResult(k, m)
    \/ \E k \in ConnIds : ConnRefresh(k)
    \/ \E k \in ConnIds : ConnQuit(k)

ConnSpec == Init /\ [][ConnNext]_vars

\* Everything connection k owns: its program and Model, and its pane
\* with the sessions, the error and the CPU histories.
ConnState(k) ==
    IF conns[k].up THEN <<conns[k], paneHeap[PaneOf(k)]>>
    ELSE <<conns[k]>>

\* ---------------------------------------------------------------------
\* ResourcesPane.renderSparkline.

\* The number of sparkline levels, len(blocks).
numBlocks == 8

\* int(x / 1000) of Go: the quotient truncated towards zero.
TruncDiv(x, d) == IF x >= 0 THEN x \div d ELSE -((-x) \div d)

\* The block index without the two clamps.
blockIndexUnclamped(v) == TruncDiv(v * numBlocks, 1000)

\* renderSparkline: the block index of a sample, v in tenths of a
\* percent: int(v / 100.0 * 8), clamped to the blocks there are.
blockIndex(v) ==
    LET idx == TruncDiv(v * numBlocks, 1000)
    IN  IF idx >= numBlocks THEN numBlocks - 1
        ELSE IF idx < 0 THEN 0
        ELSE idx

\* renderSparkline: the style of the block of a sample.
blockStyle(v) ==
    IF v >= cpuAlertThreshold THEN "fail"
    ELSE IF v >= cpuWarnThreshold THEN "warn"
    ELSE "pass"

PadCell == [kind |-> "pad", level |-> 0, style |-> "none"]

MutedPadCell == [kind |-> "pad", level |-> 0, style |-> "muted"]

\* renderSparkline of a session: `present` says whether the history map
\* has an entry for it.
renderSparkline(present, samples) ==
    IF ~present \/ Len(samples) = 0
    THEN [i \in 1..maxSamples |-> MutedPadCell]
    ELSE [i \in 1..(maxSamples - Len(samples)) |-> PadCell]
         \o [i \in 1..Len(samples) |->
                [kind  |-> "block",
                 level |-> blockIndex(samples[i]),
                 style |-> blockStyle(samples[i])]]

\* ResourcesPane.Update records a CPU sample of the session.
SparkSample(v) ==
    /\ Changes(addSample(spark.samples, v)) <= MaxSparkChanges
    /\ spark' = [present |-> TRUE,
                 samples |-> addSample(spark.samples, v),
                 cells   |-> <<>>]
    /\ UNCHANGED <<baseVars, connVars, rp, detail, rf>>

\* The view renders the sparkline of the session.
SparkRender ==
    /\ spark.cells = <<>>
    /\ spark' = [spark EXCEPT
                    !.cells = renderSparkline(spark.present, spark.samples)]
    /\ UNCHANGED <<baseVars, connVars, rp, detail, rf>>

SparkNext ==
    \/ \E v \in SparkReadings : SparkSample(v)
    \/ SparkRender

SparkSpec == Init /\ [][SparkNext]_vars

\* ---------------------------------------------------------------------
\* Agent detail: Model.detailAgent and its polling.  detail.fetching is
\* the bag of agents whose fetchAgentDetailCmd runs, detail.results the
\* bag of agents whose AgentDetailDataMsg waits for Update.

\* Model.Update on AgentSelectedMsg: remember the agent and fetch its
\* detail.
AgentSelected(a) ==
    /\ detail.selects < MaxSelects
    /\ detail' = [detail EXCEPT !.agent = a,
                                !.fetching = @ (+) SetToBag({a}),
                                !.selects = @ + 1]
    /\ UNCHANGED <<baseVars, connVars, spark, rp, rf>>

\* Model.Update on AgentDeselectedMsg.
AgentDeselected ==
    /\ detail.agent # "none"
    /\ detail' = [detail EXCEPT !.agent = "none"]
    /\ UNCHANGED <<baseVars, connVars, spark, rp, rf>>

\* fetchAgentDetailCmd returns its AgentDetailDataMsg.
AgentDetailFetched(a) ==
    /\ BagIn(a, detail.fetching)
    /\ detail' = [detail EXCEPT !.fetching = @ (-) SetToBag({a}),
                                !.results = @ (+) SetToBag({a})]
    /\ UNCHANGED <<baseVars, connVars, spark, rp, rf>>

\* Model.Update on AgentDetailDataMsg: forward it, and schedule the next
\* detail tick while an agent is selected.
AgentDetailData(a) ==
    /\ BagIn(a, detail.results)
    /\ detail' = [detail EXCEPT
                     !.results = @ (-) SetToBag({a}),
                     !.ticks = IF detail.agent # "none" THEN @ + 1 ELSE @]
    /\ UNCHANGED <<baseVars, connVars, spark, rp, rf>>

\* A detail tick that fetches agent a1 whether an agent is selected or
\* not.
AgentDetailTickAlways ==
    /\ detail.ticks > 0
    /\ detail' = [detail EXCEPT !.ticks = @ - 1,
                                !.fetching = @ (+) SetToBag({"a1"})]
    /\ UNCHANGED <<baseVars, connVars, spark, rp, rf>>

\* Model.Update on AgentDetailTickMsg: fetch the detail of the agent
\* selected now, if there is one.
AgentDetailTick ==
    /\ detail.ticks > 0
    /\ detail' = [detail EXCEPT
                     !.ticks = @ - 1,
                     !.fetching = IF detail.agent # "none"
                                  THEN @ (+) SetToBag({detail.agent})
                                  ELSE @]
    /\ UNCHANGED <<baseVars, connVars, spark, rp, rf>>

DetailNext ==
    \/ \E a \in Agents : AgentSelected(a)
    \/ AgentDeselected
    \/ \E a \in Agents : AgentDetailFetched(a)
    \/ \E a \in Agents : AgentDetailData(a)
    \/ AgentDetailTick

DetailSpec == Init /\ [][DetailNext]_vars

\* Update handles a detail tick in this step.
DetailTickHandled == detail'.ticks < detail.ticks

\* ---------------------------------------------------------------------
\* ResourcesPane.Update over several sessions.

\* The rank of a session name in the order of strings.
NameRank == [s1 |-> 1, s2 |-> 2]

\* The snapshots of an update: each session has one record at most.
RpSnapshot ==
    [s1 |-> {[name |-> "s1", cpu |-> c, mem |-> 50] : c \in {100, 960}},
     s2 |-> {[name |-> "s2", cpu |-> 500, mem |-> 70]}]

\* The ResourceUpdateMsg values of a run: a failed fetch, and a fetch
\* that lists none, one or both of the sessions.
RpMsgs ==
    {[sessions |-> <<>>, err |-> "error"], [sessions |-> <<>>, err |-> "nil"]}
    \cup {[sessions |-> <<a>>, err |-> "nil"] :
             a \in RpSnapshot.s1 \cup RpSnapshot.s2}
    \cup {[sessions |-> <<a, b>>, err |-> "nil"] :
             a \in RpSnapshot.s1, b \in RpSnapshot.s2}
    \cup {[sessions |-> <<b, a>>, err |-> "nil"] :
             a \in RpSnapshot.s1, b \in RpSnapshot.s2}

\* The less function sortSessions hands to sort.Slice.
SortLess(sortBy, a, b) ==
    IF sortFields[sortBy] = "cpu" THEN a.cpu > b.cpu
    ELSE IF sortFields[sortBy] = "mem" THEN a.mem > b.mem
    ELSE NameRank[a.name] < NameRank[b.name]

\* sortSessions: sort.Slice is not stable, so every arrangement of the
\* list that is in order is a possible result.
sortSessions(list, sortBy) ==
    {q \in {[i \in 1..Len(list) |-> list[f[i]]] :
               f \in Permutations(1..Len(list))} :
        \A i, j \in 1..Len(q) : i < j => ~SortLess(sortBy, q[j], q[i])}

contentHeight(p) == IF p.height - 3 < 1 THEN 1 ELSE p.height - 3

\* ResourcesPane.clampScroll.
clampScroll(p) ==
    LET rows      == Len(p.sessions)
        maxOffset == IF rows - contentHeight(p) < 0 THEN 0
                     ELSE rows - contentHeight(p)
        off1      == IF p.offset > maxOffset THEN maxOffset ELSE p.offset
        off2      == IF off1 < 0 THEN 0 ELSE off1
        cur1      == IF p.cursor >= rows THEN rows - 1 ELSE p.cursor
        cur2      == IF cur1 < 0 THEN 0 ELSE cur1
    IN  [p EXCEPT !.offset = off2, !.cursor = cur2]

\* ResourcesPane.scrollToCursor.
scrollToCursor(p) ==
    LET off1 == IF p.cursor < p.offset THEN p.cursor ELSE p.offset
        off2 == IF p.cursor >= off1 + contentHeight(p)
                THEN p.cursor - contentHeight(p) + 1 ELSE off1
    IN  clampScroll([p EXCEPT !.offset = off2])

\* ResourcesPane.Update on a ResourceUpdateMsg: take the sessions and the
\* error, record a sample per session, sort, clamp.
RpUpdate(m) ==
    /\ rp.updates < MaxUpdates
    /\ \E sorted \in sortSessions(m.sessions, rp.sortBy) :
          rp' = clampScroll(
                   [rp EXCEPT !.sessions = sorted,
                              !.err = m.err,
                              !.history = RecordSamples(@, m.sessions),
                              !.updates = @ + 1])
    /\ UNCHANGED <<baseVars, connVars, spark, detail, rf>>

\* ResourcesPane.Update on a key: up, down or sort.
RpKey(k) ==
    /\ \/ /\ k = "up"
          /\ rp' = IF rp.cursor > 0
                   THEN scrollToCursor([rp EXCEPT !.cursor = @ - 1])
                   ELSE rp
       \/ /\ k = "down"
          /\ rp' = IF rp.cursor < Len(rp.sessions) - 1
                   THEN scrollToCursor([rp EXCEPT !.cursor = @ + 1])
                   ELSE rp
       \/ /\ k = "sort"
          /\ LET next == (rp.sortBy % Len(sortFields)) + 1
             IN  \E sorted \in sortSessions(rp.sessions, next) :
                    rp' = [rp EXCEPT !.sortBy = next, !.sessions = sorted]
    /\ UNCHANGED <<baseVars, connVars, spark, detail, rf>>

\* ResourcesPane.SetSize, on a resize of the window.
RpSetSize(h) ==
    /\ rp' = clampScroll([rp EXCEPT !.height = h])
    /\ UNCHANGED <<baseVars, connVars, spark, detail, rf>>

RpNext ==
    \/ \E m \in RpMsgs : RpUpdate(m)
    \/ \E k \in {"up", "down", "sort"} : RpKey(k)
    \/ \E h \in {4, 24} : RpSetSize(h)

RpSpec == Init /\ [][RpNext]_vars

\* The samples the pane holds for a session in history h.
RpSamples(h, n) == IF n \in DOMAIN h THEN h[n] ELSE <<>>

\* The sessions a list names.
Listed(list) == {list[i].name : i \in DOMAIN list}

\* The CPU reading a list has for session n.
ReadingOf(list, n) == list[CHOOSE i \in DOMAIN list : list[i].name = n].cpu

\* ---------------------------------------------------------------------
\* Fetcher.FetchResources, command by command.  rf.endings is how the
\* commands run so far have ended; the output of a command that succeeded
\* is taken as parsed.

\* The snapshots of step 4 for the sessions in the order `order`.
RfSnapshots(table, order, panes) ==
    [i \in DOMAIN order |->
        SessionSnapshot(table, order[i], SessionMeta[order[i]],
                        panes[order[i]])]

\* The orders in which the range over the sessions map may visit S.
OrdersOf(S) ==
    {o \in [1..Cardinality(S) -> S] : \A i, j \in DOMAIN o :
                                          o[i] = o[j] => i = j}

\* The call begins: tmux list-sessions is started.
RfStart ==
    /\ rf.pc \in {"idle", "done"}
    /\ rf' = [NoFetch EXCEPT !.pc = "sessions"]
    /\ UNCHANGED <<baseVars, connVars, spark, rp, detail>>

\* Step 1: list-sessions ends.  An error returns nil and the error; a
\* listing without sessions returns nil, nil.
RfSessions(ending, listed) ==
    /\ rf.pc = "sessions"
    /\ rf' = IF runCmd(ending) # "nil"
             THEN [rf EXCEPT !.pc = "done",
                             !.endings = Append(@, ending),
                             !.snapshots = <<>>,
                             !.err = "listing tmux sessions"]
             ELSE IF listed = {}
             THEN [rf EXCEPT !.pc = "done",
                             !.endings = Append(@, ending),
                             !.snapshots = <<>>,
                             !.err = "nil"]
             ELSE [rf EXCEPT !.pc = "panes",
                             !.endings = Append(@, ending),
                             !.listed = listed]
    /\ UNCHANGED <<baseVars, connVars, spark, rp, detail>>

\* Step 2: list-panes ends.
RfPanes(ending, panes) ==
    /\ rf.pc = "panes"
    /\ rf' = IF runCmd(ending) # "nil"
             THEN [rf EXCEPT !.pc = "done",
                             !.endings = Append(@, ending),
                             !.snapshots = <<>>,
                             !.err = "listing tmux panes"]
             ELSE [rf EXCEPT !.pc = "ps",
                             !.endings = Append(@, ending),
                             !.panes = panes]
    /\ UNCHANGED <<baseVars, connVars, spark, rp, detail>>

\* A step 3 that answers a failed ps with the snapshots of an empty
\* process table and the error.
RfPsPartial(ending, parent) ==
    /\ rf.pc = "ps"
    /\ \E order \in OrdersOf(rf.listed) :
          rf' = [rf EXCEPT
                    !.pc = "done",
                    !.endings = Append(@, ending),
                    !.snapshots =
                        IF runCmd(ending) # "nil"
                        THEN RfSnapshots(<<>>, order, rf.panes)
                        ELSE RfSnapshots(TableOf(parent, 1), order,
                                         rf.panes),
                    !.err = IF runCmd(ending) # "nil"
                            THEN "listing processes" ELSE "nil"]
    /\ UNCHANGED <<baseVars, connVars, spark, rp, detail>>

\* Steps 3 and 4: ps ends; on success one snapshot per listed session is
\* built, in the order of the map iteration.
RfPs(ending, parent) ==
    /\ rf.pc = "ps"
    /\ \E order \in OrdersOf(rf.listed) :
          rf' = IF runCmd(ending) # "nil"
                THEN [rf EXCEPT !.pc = "done",
                                !.endings = Append(@, ending),
                                !.snapshots = <<>>,
                                !.err = "listing processes"]
                ELSE [rf EXCEPT !.pc = "done",
                                !.endings = Append(@, ending),
                                !.snapshots =
                                    RfSnapshots(TableOf(parent, 1), order,
                                                rf.panes),
                                !.err = "nil"]
    /\ UNCHANGED <<baseVars, connVars, spark, rp, detail>>

RfNext ==
    \/ RfStart
    \/ \E e \in Endings : \E listed \in SUBSET SessionNames :
          RfSessions(e, listed)
    \/ \E e \in Endings :
          \E panes \in [SessionNames -> SeqsUpTo(Pids, 1)] :
              RfPanes(e, panes)
    \/ \E e \in Endings : \E parent \in [Pids -> {-1} \cup (0..MaxPid)] :
          RfPs(e, parent)

RfSpec == Init /\ [][RfNext]_vars

\* One of the commands the call has run failed or timed out.
RfCommandFailed == \E i \in DOMAIN rf.endings : rf.endings[i] # "exit0"

\* Update handles a result message of c in this step.
ResultHandled(c) ==
    \E m \in Messages(c) : results'[c] = results[c] (-) SetToBag({m})

\* Update handles a failed result message of c in this step.
FailedResultHandled(c) ==
    \E m \in Messages(c) :
        Failed(m) /\ results'[c] = results[c] (-) SetToBag({m})

\* A fetch of c starts in this step.
FetchStarted(c) == fetching'[c] > fetching[c]

\* Update handles a tick of c in this step.
TickHandled(c) == Len(ticks'[c]) < Len(ticks[c])

-----------------------------------------------------------------------------
\* C1: at most one fetch of a category is outstanding at any time; a tick
\* that arrives while the category's fetch is in flight starts no fetch.
C1_SingleFlight ==
    /\ [](\A c \in Categories : fetching[c] <= 1)
    /\ [][\A c \in Categories :
             (TickHandled(c) /\ fetching[c] > 0) =>
                 fetching'[c] = fetching[c]]_vars

\* C2: handling a result message of a category, failed or not, schedules
\* exactly one tick of that category at its configured interval and starts
\* no fetch; no other step schedules a tick.
C2_TickOnlyAfterResult ==
    [][\A c \in Categories :
          /\ ResultHandled(c) =>
                /\ ticks'[c] = Append(ticks[c], PollInterval[c])
                /\ fetching'[c] = fetching[c]
          /\ ~ResultHandled(c) => Len(ticks'[c]) <= Len(ticks[c])]_vars

\* A failed resources result has been handled and its one tick is pending.
C2_Witness ==
    /\ refreshes = 0
    /\ paneErr # "nil"
    /\ fetching["resources"] = 0
    /\ results["resources"] = EmptyBag
    /\ ticks["resources"] = <<PollInterval["resources"]>>

\* C3: a fetch of a category starts only when no earlier fetch of that
\* category is running and no result of it waits to be handled.
C3_FetchAfterPublish ==
    [][\A c \in Categories :
          FetchStarted(c) => fetching[c] = 0 /\ results[c] = EmptyBag]_vars

\* C4: under fair scheduling every category starts a fetch infinitely
\* often, whatever the outcomes of the fetches.
C4_PollsForever ==
    \A c \in Categories : []<><<HandleTick(c)>>_vars

\* A resources failure has been handled and a later resources fetch runs.
C4_Witness ==
    /\ refreshes = 0
    /\ paneErr # "nil"
    /\ fetching["resources"] = 1

\* C5: every running fetch leads to its result being handled by Update,
\* and the result of a command killed at its deadline carries the
\* timed-out error.
C5_FetchDelivers ==
    /\ \A c \in Categories : (fetching[c] > 0) ~> (Len(ticks[c]) > 0)
    /\ [](\A c \in Categories \ {"status", "convoys"} :
            \A m \in Messages(c) :
                m.ending = "deadline" => m.err = "timed out")

\* The result of a command killed at its deadline waits for Update.
C5_Witness ==
    \E c \in Categories : \E m \in Messages(c) :
        m.ending = "deadline" /\ m.err = "timed out"

\* C6: the result message of a failed fetch carries a non-nil error.
C6_FailureCarriesError ==
    \A c \in Categories : \A m \in Messages(c) : Failed(m) => m.err # "nil"

\* C7: while a fetch of one category is in flight, every other category
\* can still start its fetch on a tick, end its fetch, and have its result
\* handled.
C7_Independent ==
    \A c \in Categories : \A d \in Categories \ {c} :
        fetching[c] > 0 =>
            /\ Len(ticks[d]) > 0 => ENABLED HandleTick(d)
            /\ fetching[d] > 0 => ENABLED CmdTimeout(d)
            /\ Messages(d) # {} =>
                  ENABLED (\E m \in Messages(d) : HandleResult(d, m))

\* The first status fetch is still in flight while resources has published
\* a result and runs its next fetch.
C7_Witness ==
    /\ refreshes = 0
    /\ ~lastRefresh
    /\ fetching["status"] = 1
    /\ results["status"] = EmptyBag
    /\ paneSessions # NoSessions
    /\ fetching["resources"] = 1

\* C8: handling a failed resources result leaves the pane's session list
\* as it was.
C8_KeepsLastGood ==
    [][FailedResultHandled("resources") => paneSessions' = paneSessions]_vars

\* C9: a snapshot's process count is the number of processes of the table
\* that are reachable from the session's anchor pids, anchors included, and
\* no pid is counted twice.
C9_CountIsReachable ==
    fetchPc = "done" =>
        \A i \in DOMAIN snapshots :
            snapshots[i].count =
                Cardinality(SessionProcs(procs, sessionPanes[snapshots[i].name]))

\* C10: a snapshot's CPU and memory totals are the sums over exactly the
\* processes of the table that are anchors or descend from one; the CPU
\* total is not clamped.
C10_TotalsAreSums ==
    fetchPc = "done" =>
        \A i \in DOMAIN snapshots :
            LET S == SessionProcs(procs, sessionPanes[snapshots[i].name])
            IN  /\ snapshots[i].cpu = SumOver(S, "cpu")
                /\ snapshots[i].mem = SumOver(S, "rss") * 1024

\* C11 as stated: no process is counted in the snapshots of two sessions,
\* and a process reachable from no anchor is counted in no snapshot.
C11_NoProcessInTwoSessions ==
    fetchPc = "done" =>
        /\ \A i \in DOMAIN snapshots : \A j \in DOMAIN snapshots :
              i # j =>
                  Range(snapshots[i].pids) \cap Range(snapshots[j].pids) = {}
        /\ \A r \in Range(procs) :
              (\A s \in SessionNames :
                   r.pid \notin Reachable(procs, Range(sessionPanes[s])))
                  => \A i \in DOMAIN snapshots :
                         r.pid \notin Range(snapshots[i].pids)

\* C11: a process is counted in the snapshot of a session exactly when it
\* is an anchor of that session or descends from one; a process reachable
\* from no anchor is counted in no snapshot, and a process reachable from
\* the anchors of two sessions is counted in both snapshots.
C11_CountedIffReachable ==
    fetchPc = "done" =>
        \A i \in DOMAIN snapshots :
            Range(snapshots[i].pids) =
                {r.pid : r \in SessionProcs(procs,
                                            sessionPanes[snapshots[i].name])}

\* Two sessions list the same pane pid, its process is counted in both
\* snapshots, and another process of the table is counted in none.
C11_Witness ==
    /\ fetchPc = "done"
    /\ \E i \in DOMAIN snapshots : \E j \in DOMAIN snapshots :
          /\ i # j
          /\ Range(snapshots[i].pids) \cap Range(snapshots[j].pids) # {}
    /\ \E r \in Range(procs) :
          \A i \in DOMAIN snapshots : r.pid \notin Range(snapshots[i].pids)

\* C12: a resources fetch returns exactly one snapshot for every session
\* of the session listing; the snapshot of a session without pane pids has
\* zero CPU, zero memory and zero process count, and every snapshot has the
\* uptime and the last-activity time of its session.
C12_OneSnapshotPerSession ==
    fetchPc = "done" =>
        /\ Len(snapshots) = Cardinality(DOMAIN sessions)
        /\ \A s \in DOMAIN sessions :
              \E i \in DOMAIN snapshots : snapshots[i].name = s
        /\ \A i \in DOMAIN snapshots :
              LET s == snapshots[i].name
              IN  /\ s \in DOMAIN sessions
                  /\ snapshots[i].uptime = Now - sessions[s].created
                  /\ snapshots[i].activity = sessions[s].activity
                  /\ sessionPanes[s] = <<>> =>
                        /\ snapshots[i].cpu = 0
                        /\ snapshots[i].mem = 0
                        /\ snapshots[i].count = 0

\* Two sessions are listed; one has no pane and gets a zero snapshot with
\* its uptime and activity time, the other has a process counted.
C12_Witness ==
    /\ fetchPc = "done"
    /\ Len(snapshots) = 2
    /\ \E i \in DOMAIN snapshots : \E j \in DOMAIN snapshots :
          /\ sessionPanes[snapshots[i].name] = <<>>
          /\ snapshots[i].count = 0
          /\ snapshots[i].uptime = Now - SessionMeta[snapshots[i].name].created
          /\ snapshots[i].activity = SessionMeta[snapshots[i].name].activity
          /\ snapshots[j].count > 0

\* C13: after k addSample calls the history of a session holds exactly the
\* last min(k, 10) values in call order: never more than 10, the oldest
\* evicted first, the value of the latest call last.
C13_KeepsLastSamples ==
    \A s \in DOMAIN history :
        LET k == Len(calls[s])
            n == IF k < maxSamples THEN k ELSE maxSamples
        IN  /\ Len(history[s]) = n
            /\ Len(history[s]) <= maxSamples
            /\ history[s] = SubSeq(calls[s], k - n + 1, k)
            /\ k > 0 => history[s][n] = calls[s][k]

\* More than 10 samples were added and the first of them is evicted.
C13_Witness ==
    /\ "s1" \in DOMAIN history
    /\ Len(calls["s1"]) > maxSamples
    /\ history["s1"][1] # calls["s1"][1]

\* C14: whatever the CPU history and the current reading, a session whose
\* last activity is more than 15 minutes before Now has the status stale.
C14_StaleOverrides ==
    /\ \A name \in SessionNames : \A cpu \in Readings :
          \A ts \in ActivityTimes :
              (ts > 0 /\ Now - ts > staleThreshold) =>
                  sessionStatus(history, name, cpu, ts) = "stale"
    /\ \A i \in DOMAIN rendered :
          (/\ paneSessions[i].activity > 0
           /\ Now - paneSessions[i].activity > staleThreshold) =>
              rendered[i] = "stale"

\* A session idle for 20 minutes with ten samples of 96 is rendered stale.
C14_Witness ==
    /\ SamplesOf("s1") = [i \in 1..maxSamples |-> 960]
    /\ Len(paneSessions) = 1
    /\ paneSessions[1].activity = Now - 1200
    /\ rendered = <<"stale">>

\* C15: a session that is not stale and whose last 10 samples are all
\* greater than 95 has the status alert.
C15_SustainedAlert ==
    /\ \A name \in SessionNames : \A cpu \in Readings :
          \A ts \in ActivityTimes :
              (/\ ~IsStale(ts)
               /\ LastAllAbove(SamplesOf(name), cpuAlertThreshold,
                               cpuAlertSamples)) =>
                  sessionStatus(history, name, cpu, ts) = "alert"
    /\ \A i \in DOMAIN rendered :
          (/\ ~IsStale(paneSessions[i].activity)
           /\ LastAllAbove(SamplesOf(paneSessions[i].name),
                           cpuAlertThreshold, cpuAlertSamples)) =>
              rendered[i] = "alert"

\* Ten samples of 96 of a session that is not stale are rendered alert.
C15_Witness ==
    /\ SamplesOf("s1") = [i \in 1..maxSamples |-> 960]
    /\ Len(paneSessions) = 1
    /\ ~IsStale(paneSessions[1].activity)
    /\ rendered = <<"alert">>

\* C16: a session that is not stale and does not meet the alert rule, and
\* whose last 4 samples are all greater than 80, has the status warning.
C16_SustainedWarning ==
    \A name \in SessionNames : \A cpu \in Readings :
        \A ts \in ActivityTimes :
            (/\ ~IsStale(ts)
             /\ ~LastAllAbove(SamplesOf(name), cpuAlertThreshold,
                              cpuAlertSamples)
             /\ LastAllAbove(SamplesOf(name), cpuWarnThreshold,
                             cpuWarnSamples)) =>
                sessionStatus(history, name, cpu, ts) = "warning"

\* C17: a session with fewer than 10 retained samples never has the status
\* alert, whatever its readings; a session rendered alert has had at least
\* ten resource updates.
C17_NoAlertWithoutHistory ==
    /\ \A name \in SessionNames : \A cpu \in Readings :
          \A ts \in ActivityTimes :
              Len(SamplesOf(name)) < 10 =>
                  sessionStatus(history, name, cpu, ts) # "alert"
    /\ \A i \in DOMAIN rendered :
          rendered[i] = "alert" =>
              /\ paneSessions[i].name \in DOMAIN calls
              /\ Len(calls[paneSessions[i].name]) >= 10

\* Nine samples of 96 of a session that is not stale are rendered warning.
C17_Witness ==
    /\ SamplesOf("s1") = [i \in 1..9 |-> 960]
    /\ Len(paneSessions) = 1
    /\ ~IsStale(paneSessions[1].activity)
    /\ rendered = <<"warning">>

\* C18: for a session that is not stale and meets neither sustained rule
\* the status is warning when the reading is greater than 95 and healthy
\* otherwise.
C18_InstantaneousRule ==
    \A name \in SessionNames : \A cpu \in Readings :
        \A ts \in ActivityTimes :
            (/\ ~IsStale(ts)
             /\ ~LastAllAbove(SamplesOf(name), cpuAlertThreshold,
                              cpuAlertSamples)
             /\ ~LastAllAbove(SamplesOf(name), cpuWarnThreshold,
                              cpuWarnSamples)) =>
                sessionStatus(history, name, cpu, ts) =
                    IF cpu > cpuAlertThreshold THEN "warning" ELSE "healthy"

\* C19: a line of the ps output gives a process record only when it has
\* four fields and each is a number; any other line is dropped and adds
\* nothing to a snapshot, and the fetch still returns its snapshots.
C19_MalformedLinesDropped ==
    /\ fetchPc \in {"parsed", "done"} =>
          procs = ParsePs(WellFormedLines(psLines))
    /\ fetchPc = "done" =>
          /\ Len(snapshots) = Cardinality(DOMAIN sessions)
          /\ \A i \in DOMAIN snapshots :
                snapshots[i] =
                    SessionSnapshot(ParsePs(WellFormedLines(psLines)),
                                    snapshots[i].name,
                                    sessions[snapshots[i].name],
                                    sessionPanes[snapshots[i].name])

\* C20: the walk of a session ends for every table and every pane pids,
\* also when a pid is its own parent or parent links form a cycle, and no
\* pid is put on the queue more than once.
C20_TerminatesEnqueueOnce ==
    /\ <>(walk.pc = "done")
    /\ [](walk.pc # "idle" => \A p \in Pids : walk.enqueued[p] <= 1)

\* The walk of a session ends for every table and every pane pids.
WalkTerminates == <>(walk.pc = "done")

\* The walk in steps returns the snapshot that SessionSnapshot computes.
WalkAgrees ==
    walk.pc = "done" =>
        snapshots = <<SessionSnapshot(procs, "s1", sessions["s1"],
                                      sessionPanes["s1"])>>

\* C21: a step changes what at most one connection owns; the Model, pane
\* data, timers and CPU histories of every other connection stay as they
\* were.
C21_ConnectionsIndependent ==
    [][Cardinality({k \in ConnIds : ConnState(k)' # ConnState(k)}) <= 1]_vars

\* Both connections are up and their panes hold different data.
C21_Witness ==
    /\ \A k \in ConnIds : conns[k].up
    /\ paneHeap[PaneOf("a")].history # paneHeap[PaneOf("b")].history
    /\ paneHeap[PaneOf("a")].err # paneHeap[PaneOf("b")].err

\* C22: a connection whose program has quit has no external command in
\* flight.
C22_QuitCancelsCommands ==
    \A k \in ConnIds : conns[k].quit => conns[k].fetching = 0

\* C22, first half: a connection whose program has quit starts no fetch.
C22_NoFetchAfterQuit ==
    [][\A k \in ConnIds :
          conns[k].quit => conns'[k].fetching <= conns[k].fetching]_vars

\* C23: a rendered sparkline has maxSamples cells, placeholders first and
\* then one block per retained sample, oldest first; the level of a block
\* is within 0..7 and does not fall when the sample rises, 0% has level 0
\* and 100% has level 7.
C23_Sparkline ==
    spark.cells # <<>> =>
        LET n   == Len(spark.samples)
            pad == maxSamples - n
        IN  /\ Len(spark.cells) = 10
            /\ \A i \in 1..pad : spark.cells[i].kind = "pad"
            /\ \A i \in 1..n :
                  /\ spark.cells[pad + i].kind = "block"
                  /\ spark.cells[pad + i].level \in 0..7
                  /\ spark.cells[pad + i].level = blockIndex(spark.samples[i])
                  /\ spark.samples[i] = 0 => spark.cells[pad + i].level = 0
                  /\ spark.samples[i] = 1000 =>
                        spark.cells[pad + i].level = 7
            /\ \A i, j \in 1..n :
                  spark.samples[i] <= spark.samples[j] =>
                      spark.cells[pad + i].level <= spark.cells[pad + j].level

\* A sparkline of a full history with a reading above 100% and one below
\* 0% has been rendered.
C23_Witness ==
    /\ Len(spark.cells) = maxSamples
    /\ Len(spark.samples) = maxSamples
    /\ \E i, j \in 1..maxSamples :
          spark.samples[i] > 1000 /\ spark.samples[j] < 0

\* A sparkline with placeholders and blocks has been rendered.
C23_PaddedWitness ==
    /\ spark.cells # <<>>
    /\ Len(spark.samples) = 3
    /\ spark.samples[1] = 124 /\ spark.samples[3] = 125

\* The polling chains of category c: its running fetches, its results
\* that wait for Update and its pending ticks.
Chains(c) == fetching[c] + BagCardinality(results[c]) + Len(ticks[c])

\* C24: however often and whenever the refresh key is pressed, a category
\* has at most one fetch in flight and at most one polling chain.
C24_RefreshKeepsOneChain ==
    \A c \in Categories : fetching[c] <= 1 /\ Chains(c) <= 1

\* C26: without the refresh key every category has exactly one polling
\* chain in every reachable state: one running fetch, or one result that
\* waits for Update, or one pending tick.
C26_ExactlyOneChain ==
    \A c \in Categories : Chains(c) = 1

\* A failed result of one category has been handled and its tick is
\* pending while the fetch of another category is still running.
C26_Witness ==
    /\ refreshes = 0
    /\ paneErr # "nil"
    /\ Len(ticks["resources"]) = 1
    /\ fetching["status"] = 1

\* C25: at most one agent-detail fetch is in flight and at most one
\* agent-detail tick is pending, whatever the order of selections,
\* deselections, ticks and fetch completions.
C25_DetailSingleFlight ==
    /\ BagCardinality(detail.fetching) <= 1
    /\ detail.ticks <= 1

\* C30: while no agent is selected no detail fetch is started and no
\* detail tick is scheduled, and a detail tick that fires while an agent
\* is selected starts exactly one fetch, of that agent.
C30_DeselectStopsPolling ==
    [][/\ (detail.agent = "none" /\ detail'.agent = "none") =>
              /\ detail'.fetching \sqsubseteq detail.fetching
              /\ detail'.ticks <= detail.ticks
       /\ (DetailTickHandled /\ detail.agent # "none") =>
              detail'.fetching =
                  detail.fetching (+) SetToBag({detail.agent})]_vars

\* After a selection and a deselection the outstanding fetch and tick
\* have completed and nothing of the polling is left.
C30_Witness ==
    /\ detail.agent = "none"
    /\ detail.selects > 0
    /\ detail.fetching = EmptyBag
    /\ detail.results = EmptyBag
    /\ detail.ticks = 0

\* C27: a resource update appends one sample, the reading of the update,
\* to the history of every session it lists and leaves every other
\* history as it was; no history entry is removed; a key, a resize or a
\* failed fetch changes no history.
C27_UpdateExtendsListedOnly ==
    [][/\ DOMAIN rp.history \subseteq DOMAIN rp'.history
       /\ \A n \in SessionNames :
             LET old == RpSamples(rp.history, n)
                 new == RpSamples(rp'.history, n)
             IN  IF rp'.updates # rp.updates /\ n \in Listed(rp'.sessions)
                 THEN new = IF Len(old) < maxSamples
                            THEN Append(old, ReadingOf(rp'.sessions, n))
                            ELSE Tail(old)
                                 \o <<ReadingOf(rp'.sessions, n)>>
                 ELSE new = old]_vars

\* The last update listed s2 only, and the samples that s1 had before
\* it are still there.
C27_Witness ==
    /\ rp.updates = MaxUpdates
    /\ Listed(rp.sessions) = {"s2"}
    /\ RpSamples(rp.history, "s1") = <<960, 100>>
    /\ Len(RpSamples(rp.history, "s2")) = 1

\* C28: sustainedAbove(threshold, n) is true exactly when the history has
\* at least n samples and each of the last n is strictly greater than the
\* threshold.
C28_SustainedAboveStrict ==
    \A name \in SessionNames :
        /\ sustainedAbove(SamplesOf(name), cpuWarnThreshold, cpuWarnSamples)
              <=> LastAllAbove(SamplesOf(name), cpuWarnThreshold,
                               cpuWarnSamples)
        /\ sustainedAbove(SamplesOf(name), cpuAlertThreshold,
                          cpuAlertSamples)
              <=> LastAllAbove(SamplesOf(name), cpuAlertThreshold,
                               cpuAlertSamples)

\* C29: a resources fetch in which one of the three commands failed or
\* timed out returns no snapshot and an error; no call returns an error
\* together with snapshots.
C29_FailureReturnsNoData ==
    rf.pc = "done" =>
        /\ RfCommandFailed => (rf.snapshots = <<>> /\ rf.err # "nil")
        /\ rf.err # "nil" => rf.snapshots = <<>>

\* The session and pane listings succeeded with a session that has a
\* pane, the process listing timed out, and the call has returned.
C29_Witness ==
    /\ rf.pc = "done"
    /\ rf.endings = <<"exit0", "exit0", "deadline">>
    /\ "s1" \in rf.listed
    /\ rf.panes["s1"] # <<>>
    /\ rf.err = "listing processes"

====
